---- MODULE Spec2Model ----
(***************************************************************************)
(* Airnode ABI codec (airnode-abi/src/lib.rs): Param, ABI::encode and      *)
(* ABI::decode over streams of 256-bit words (specification Spec), and     *)
(* get_batches of airnode-rrp-explorer/src/reader.rs (BatchSpec).          *)
(*                                                                         *)
(* A word (U256) is modelled as the sequence of its 32 big-endian bytes,   *)
(* a Rust String as the sequence of its UTF-8 bytes, a char as the         *)
(* sequence of the bytes of its UTF-8 encoding, an H160 as 20 bytes.       *)
(* The modules `encode` and `decode` of the crate (lib.rs:46-50) are       *)
(* modelled from the specification's section 4.1.                          *)
(***************************************************************************)
EXTENDS Integers, Sequences, FiniteSets, TLC

\* ------------------------------------------------------------------ bounds
\* longest parameter list handed to ABI::new by the Encode action
MaxParams == 2
\* get_batches: block numbers 0..MaxBlock, batch sizes 1..MaxBatchSize
MaxBlock == 5
MaxBatchSize == 3

\* ------------------------------------------------------- program constants
WordBytes == 32
AddressBytes == 20
ShortStringMax == 31
ParamLimit == 31
Version == 49
\* the length the message of EncodingError::StringTooLong names
StringTooLongText == 32

\* ------------------------------------------------------------ evaluation
\* F applied to the value of v, with v evaluated once
Strict(v, F(_)) == CHOOSE r \in {F(x) : x \in {v}} : TRUE

\* the body F of a loop run n times from the state st
RECURSIVE Iterate(_, _, _)
Iterate(F(_), st, n) ==
  IF n = 0 THEN st
  ELSE IF n = 1 THEN Strict(st, F)
  ELSE Strict(Iterate(F, st, n \div 2), LAMBDA h : Iterate(F, h, n - (n \div 2)))

\* the sequence f as a tuple of evaluated elements
AsTuple(f) == SubSeq(f, 1, Len(f))

\* ---------------------------------------------------------- bytes and words
Byte == 0..255

Zeros(n) == AsTuple([i \in 1..n |-> 0])

\* s followed by zero bytes up to n bytes (left-aligned, zero-padded)
PadRight(s, n) == Strict(s, LAMBDA t : t \o Zeros(n - Len(t)))

ZeroWord == Zeros(WordBytes)

is_zero(w) == \A i \in 1..Len(w) : w[i] = 0

\* U256::from(n) for a machine integer n below 2^24
U256_from(n) ==
  Strict(n, LAMBDA k :
    Zeros(WordBytes - 3) \o <<(k \div 65536) % 256, (k \div 256) % 256, k % 256>>)

\* U256::as_usize: the value when it is below 2^24, and -1 for every larger
\* value: the conversion panics when the value does not fit usize, and a
\* larger value that fits is past the end of every stream of the model.
as_usize(w) ==
  Strict(w, LAMBDA u :
    IF \A i \in 1..(WordBytes - 3) : u[i] = 0
    THEN u[WordBytes - 2] * 65536 + u[WordBytes - 1] * 256 + u[WordBytes]
    ELSE -1)

\* index of the last byte that is not zero, 0 when there is none
LastNonZero(bs) ==
  Strict(bs, LAMBDA t :
    LET S == {i \in 1..Len(t) : t[i] # 0}
    IN  IF S = {} THEN 0 ELSE CHOOSE i \in S : \A j \in S : j <= i)

\* two's-complement negation over 256 bits, (2^256 - w) mod 2^256: the bytes
\* above the last non-zero byte are inverted, that byte is negated
Negate(w) ==
  Strict(w, LAMBDA u :
    Strict(LastNonZero(u), LAMBDA k :
      AsTuple([i \in 1..Len(u) |->
                 IF i > k THEN 0
                 ELSE IF i = k THEN 256 - u[i]
                 ELSE 255 - u[i]])))

HighBit(w) == w[1] >= 128

\* ------------------------------------------------------------------ UTF-8
IsCont(b) == b >= 128 /\ b <= 191

ByteAt(bs, i) == IF i <= Len(bs) THEN bs[i] ELSE 0

\* number of bytes of the well-formed UTF-8 character with first byte b and
\* next bytes b2, b3, b4 (0 past the end); 0 when there is none
Utf8Width(b, b2, b3, b4) ==
  IF b < 128 THEN 1
  ELSE IF b >= 194 /\ b <= 223 THEN (IF IsCont(b2) THEN 2 ELSE 0)
  ELSE IF b = 224 THEN (IF b2 >= 160 /\ b2 <= 191 /\ IsCont(b3) THEN 3 ELSE 0)
  ELSE IF b = 237 THEN (IF b2 >= 128 /\ b2 <= 159 /\ IsCont(b3) THEN 3 ELSE 0)
  ELSE IF b >= 225 /\ b <= 239 THEN (IF IsCont(b2) /\ IsCont(b3) THEN 3 ELSE 0)
  ELSE IF b = 240
    THEN (IF b2 >= 144 /\ b2 <= 191 /\ IsCont(b3) /\ IsCont(b4) THEN 4 ELSE 0)
  ELSE IF b >= 241 /\ b <= 243
    THEN (IF IsCont(b2) /\ IsCont(b3) /\ IsCont(b4) THEN 4 ELSE 0)
  ELSE IF b = 244
    THEN (IF b2 >= 128 /\ b2 <= 143 /\ IsCont(b3) /\ IsCont(b4) THEN 4 ELSE 0)
  ELSE 0

CharWidth(bs, i) ==
  Utf8Width(bs[i], ByteAt(bs, i + 1), ByteAt(bs, i + 2), ByteAt(bs, i + 3))

\* one character of st.bs read at byte st.i and appended to st.cs, as the
\* bytes of its encoding; <<-1>> stands at the first malformed character
\* and ends the reading
CharsStep(st) ==
  IF st.i > Len(st.bs) THEN st
  ELSE Strict(CharWidth(st.bs, st.i), LAMBDA k :
         IF k = 0 THEN [bs |-> st.bs, i |-> Len(st.bs) + 1, cs |-> Append(st.cs, <<-1>>)]
         ELSE [bs |-> st.bs, i |-> st.i + k,
               cs |-> Append(st.cs, SubSeq(st.bs, st.i, st.i + k - 1))])

\* String::chars of the text with bytes bs
chars(bs) == Iterate(CharsStep, [bs |-> bs, i |-> 1, cs |-> << >>], Len(bs)).cs

\* String::from_utf8 succeeds on bs
IsUtf8(bs) == Strict(chars(bs), LAMBDA cs : \A j \in 1..Len(cs) : cs[j] # <<-1>>)

\* ------------------------------------------- word primitives (mod encode)
\* str_chunk32: the UTF-8 bytes of a short string, left-aligned in one word
str_chunk32(s) ==
  IF Len(s) > ShortStringMax THEN [ok |-> FALSE, err |-> "StringTooLong"]
  ELSE [ok |-> TRUE, v |-> PadRight(s, WordBytes)]

\* address_chunk: the address right-aligned, the high 12 bytes zero
address_chunk(a) == Zeros(WordBytes - AddressBytes) \o a

\* int_chunk: the magnitude when sign >= 0, its two's complement otherwise
int_chunk(value, sign) == IF sign >= 0 THEN value ELSE Negate(value)

Digit(d) == 48 + d

\* format!("{:04}-{:02}-{:02}") of a date whose components are in range
DateString(year, month, day) ==
  << Digit((year \div 1000) % 10), Digit((year \div 100) % 10),
     Digit((year \div 10) % 10), Digit(year % 10), 45,
     Digit((month \div 10) % 10), Digit(month % 10), 45,
     Digit((day \div 10) % 10), Digit(day % 10) >>

date_chunk(year, month, day) ==
  IF year < 0 \/ year > 9999 THEN [ok |-> FALSE, err |-> "InvalidYear"]
  ELSE IF month < 1 \/ month > 12 THEN [ok |-> FALSE, err |-> "InvalidMonth"]
  ELSE IF day < 1 \/ day > 31 THEN [ok |-> FALSE, err |-> "InvalidDay"]
  ELSE str_chunk32(DateString(year, month, day))

\* chunks: the bytes in groups of 32, the last group zero-padded
chunks(bs) ==
  Strict(bs, LAMBDA t :
    AsTuple([k \in 1..((Len(t) + WordBytes - 1) \div WordBytes) |->
               AsTuple([j \in 1..WordBytes |-> ByteAt(t, (k - 1) * WordBytes + j)])]))

str_chunks(s) == chunks(s)

\* ------------------------------------------- word primitives (mod decode)
\* chunk_to_str: the bytes of the word without the trailing zero bytes, as
\* UTF-8 text
chunk_to_str(w) ==
  Strict(SubSeq(w, 1, LastNonZero(w)), LAMBDA bs :
    IF IsUtf8(bs) THEN [ok |-> TRUE, v |-> bs] ELSE [ok |-> FALSE])

\* chunk_to_address: the low 20 bytes
chunk_to_address(w) == SubSeq(w, WordBytes - AddressBytes + 1, WordBytes)

\* chunk_to_int: (magnitude, sign) of a two's-complement word; zero is positive
chunk_to_int(w) ==
  Strict(w, LAMBDA u :
    IF HighBit(u) THEN [value |-> Negate(u), sign |-> -1]
    ELSE [value |-> u, sign |-> 1])

IsDigit(b) == b >= 48 /\ b <= 57

\* str_to_date: (year, month, day) of a string of the form YYYY-MM-DD
str_to_date(t) ==
  Strict(t, LAMBDA s :
  IF /\ Len(s) = 10
     /\ s[5] = 45 /\ s[8] = 45
     /\ \A i \in {1, 2, 3, 4, 6, 7, 9, 10} : IsDigit(s[i])
  THEN [some |-> TRUE,
        year |-> (s[1] - 48) * 1000 + (s[2] - 48) * 100 + (s[3] - 48) * 10 + (s[4] - 48),
        month |-> (s[6] - 48) * 10 + (s[7] - 48),
        day |-> (s[9] - 48) * 10 + (s[10] - 48)]
  ELSE [some |-> FALSE])

\* the bytes of the words ws, in order
Flatten(ws) ==
  Strict(ws, LAMBDA t :
    AsTuple([i \in 1..(Len(t) * WordBytes) |->
               t[((i - 1) \div WordBytes) + 1][((i - 1) % WordBytes) + 1]]))

\* chunk_to_vec: the first `size` bytes of the ceil(size/32) words that start
\* at word index `offset` (0-based); the read of a word past the end of the
\* stream panics
chunk_to_vec(arr, offset, size) ==
  Strict((size + WordBytes - 1) \div WordBytes, LAMBDA n :
    IF size < 0 \/ offset + n > Len(arr) THEN [ok |-> FALSE]
    ELSE [ok |-> TRUE,
          v |-> SubSeq(Flatten(SubSeq(arr, offset + 1, offset + n)), 1, size)])

\* ------------------------------------------------------------------ Param
\* A Param is a record with the fields of its variant and tag = the variant;
\* the boolean of Bool is the field flag, the other values are byte sequences.
Address(n, v) == [tag |-> "Address", name |-> n, value |-> v]
Bool(n, v) == [tag |-> "Bool", name |-> n, flag |-> v]
Bytes(n, v) == [tag |-> "Bytes", name |-> n, value |-> v]
Bytes32(n, v) == [tag |-> "Bytes32", name |-> n, value |-> v]
Date(n, y, m, d) == [tag |-> "Date", name |-> n, year |-> y, month |-> m, day |-> d]
Int256(n, v, s) == [tag |-> "Int256", name |-> n, value |-> v, sign |-> s]
String(n, v) == [tag |-> "String", name |-> n, value |-> v]
String32(n, v) == [tag |-> "String32", name |-> n, value |-> v]
Uint256(n, v) == [tag |-> "Uint256", name |-> n, value |-> v]

\* the schema characters, as bytes
ch_a == 97
ch_b == 98
ch_B == 66
ch_i == 105
ch_S == 83
ch_u == 117

get_char(p) ==
  CASE p.tag = "Address" -> ch_a
    [] p.tag = "Bool" -> ch_b
    [] p.tag = "Bytes" -> ch_B
    [] p.tag = "Bytes32" -> ch_b
    [] p.tag = "Date" -> ch_b
    [] p.tag = "Int256" -> ch_i
    [] p.tag = "String" -> ch_S
    [] p.tag = "String32" -> ch_B
    [] p.tag = "Uint256" -> ch_u

is_fixed_size(p) ==
  CASE p.tag = "Bytes" -> FALSE
    [] p.tag = "String" -> FALSE
    [] OTHER -> TRUE

\* the value word of fixed_chunks, a Result
ValueChunk(p) ==
  CASE p.tag = "Address" -> [ok |-> TRUE, v |-> address_chunk(p.value)]
    [] p.tag = "Bool" ->
         IF p.flag THEN str_chunk32(<<116, 114, 117, 101>>)
         ELSE str_chunk32(<<102, 97, 108, 115, 101>>)
    [] p.tag = "Bytes" -> [ok |-> TRUE, v |-> U256_from(0)]
    [] p.tag = "Bytes32" -> [ok |-> TRUE, v |-> p.value]
    [] p.tag = "Date" -> date_chunk(p.year, p.month, p.day)
    [] p.tag = "Int256" -> [ok |-> TRUE, v |-> int_chunk(p.value, p.sign)]
    [] p.tag = "String" -> [ok |-> TRUE, v |-> U256_from(0)]
    [] p.tag = "String32" -> str_chunk32(p.value)
    [] p.tag = "Uint256" -> [ok |-> TRUE, v |-> p.value]

\* faulty fixed_chunks: the name of a Bytes or String parameter is cut to
\* one word instead of being rejected
fixed_chunks_cutname(p) ==
  LET n == IF p.tag \in {"Bytes", "String"}
           THEN [ok |-> TRUE,
                 v |-> PadRight(SubSeq(p.name, 1, IF Len(p.name) > WordBytes
                                                  THEN WordBytes ELSE Len(p.name)),
                                WordBytes)]
           ELSE str_chunk32(p.name)
      v == ValueChunk(p)
  IN  IF ~n.ok THEN n
      ELSE IF ~v.ok THEN v
      ELSE [ok |-> TRUE, v |-> <<n.v, v.v>>]

\* fixed_chunks: the name word, then the value word; the first error returns
fixed_chunks(p) ==
  LET n == str_chunk32(p.name)
      v == ValueChunk(p)
  IN  IF ~n.ok THEN n
      ELSE IF ~v.ok THEN v
      ELSE [ok |-> TRUE, v |-> <<n.v, v.v>>]

\* faulty dynamic_chunks: an empty payload yields no chunk at all
dynamic_chunks_noempty(p) ==
  CASE p.tag = "Bytes" /\ Len(p.value) > 0 ->
         <<U256_from(Len(p.value))>> \o chunks(p.value)
    [] p.tag = "String" /\ Len(p.value) > 0 ->
         <<U256_from(Len(p.value))>> \o str_chunks(p.value)
    [] OTHER -> << >>

dynamic_chunks(p) ==
  CASE p.tag = "Bytes" -> <<U256_from(Len(p.value))>> \o chunks(p.value)
    [] p.tag = "String" -> <<U256_from(Len(p.value))>> \o str_chunks(p.value)
    [] OTHER -> << >>

\* -------------------------------------------------------------------- ABI
encode_schema(version, params) ==
  Strict(params, LAMBDA ps : <<version>> \o [i \in 1..Len(ps) |-> get_char(ps[i])])

ABI_new(params) ==
  [version |-> Version, schema |-> encode_schema(Version, params), params |-> params]

ABI_none == [version |-> Version, schema |-> <<Version>>, params |-> << >>]

ABI_only(param) ==
  [version |-> Version, schema |-> encode_schema(Version, <<param>>),
   params |-> <<param>>]

\* faulty PassOneStep: the side table holds the position of the name word
PassOneStep_namepos(params, st) ==
  IF st.i >= Len(params) \/ ~st.ok THEN st
  ELSE Strict(params[st.i + 1], LAMBDA p :
       Strict(fixed_chunks(p), LAMBDA fc :
         IF ~fc.ok THEN [st EXCEPT !.ok = FALSE, !.err = fc.err]
         ELSE [ok |-> TRUE, err |-> "", i |-> st.i + 1,
               out |-> st.out \o fc.v,
               m |-> IF ~is_fixed_size(p)
                     THEN (st.i :> Len(st.out)) @@ st.m
                     ELSE st.m]))

\* body of the first loop of encode for parameter st.i (0-based as in the
\* code): st.out is the stream so far, st.m the side table from the index of
\* a parameter to the position of its value word; the first error ends it
PassOneStep(params, st) ==
  IF st.i >= Len(params) \/ ~st.ok THEN st
  ELSE Strict(params[st.i + 1], LAMBDA p :
       Strict(fixed_chunks(p), LAMBDA fc :
         IF ~fc.ok THEN [st EXCEPT !.ok = FALSE, !.err = fc.err]
         ELSE [ok |-> TRUE, err |-> "", i |-> st.i + 1,
               out |-> st.out \o fc.v,
               m |-> IF ~is_fixed_size(p)
                     THEN (st.i :> (Len(st.out) + 1)) @@ st.m
                     ELSE st.m]))

PassOne(params, st) == Iterate(LAMBDA t : PassOneStep(params, t), st, Len(params))

\* faulty PushChunk: the offset written is that of the chunk being pushed
PushChunk_perchunk(i, m, offset, st) ==
  IF Len(st.cs) = 0 \/ st.panic THEN st
  ELSE IF i \notin DOMAIN m THEN [st EXCEPT !.panic = TRUE]
  ELSE [panic |-> FALSE, cs |-> Tail(st.cs),
        out |-> [st.out EXCEPT ![m[i] + 1] = U256_from(Len(st.out) * WordBytes)]
                \o <<Head(st.cs)>>,
        writes |-> Append(st.writes, <<m[i], Len(st.out) * WordBytes>>)]

\* body of the inner loop of the second loop for parameter i: the first
\* chunk of st.cs writes offset at the position the side table gives (unwrap
\* panics without one) and is pushed; st.writes logs every write as
\* <<position, offset written>>
PushChunk(i, m, offset, st) ==
  IF Len(st.cs) = 0 \/ st.panic THEN st
  ELSE IF i \notin DOMAIN m THEN [st EXCEPT !.panic = TRUE]
  ELSE [panic |-> FALSE, cs |-> Tail(st.cs),
        out |-> [st.out EXCEPT ![m[i] + 1] = U256_from(offset)] \o <<Head(st.cs)>>,
        writes |-> Append(st.writes, <<m[i], offset>>)]

PushChunks(i, m, offset, st) ==
  Iterate(LAMBDA t : PushChunk(i, m, offset, t), st, Len(st.cs))

\* faulty PassTwoStep: the running offset is not recomputed after a parameter
PassTwoStep_staleoffset(params, m, st) ==
  IF st.i >= Len(params) \/ st.panic THEN st
  ELSE Strict(PushChunks(st.i, m, st.offset,
                         [panic |-> FALSE, cs |-> dynamic_chunks(params[st.i + 1]),
                          out |-> st.out, writes |-> st.writes]),
              LAMBDA r :
         [panic |-> r.panic, i |-> st.i + 1, offset |-> st.offset,
          out |-> r.out, writes |-> r.writes])

\* body of the second loop of encode for parameter st.i; st.offset is the
\* running byte offset
PassTwoStep(params, m, st) ==
  IF st.i >= Len(params) \/ st.panic THEN st
  ELSE Strict(PushChunks(st.i, m, st.offset,
                         [panic |-> FALSE, cs |-> dynamic_chunks(params[st.i + 1]),
                          out |-> st.out, writes |-> st.writes]),
              LAMBDA r :
         [panic |-> r.panic, i |-> st.i + 1, offset |-> Len(r.out) * WordBytes,
          out |-> r.out, writes |-> r.writes])

PassTwo(params, m, st) == Iterate(LAMBDA t : PassTwoStep(params, m, t), st, Len(params))

\* faulty EncodeParams: the number of parameters is tested after the schema
\* word and the first loop
EncodeParams_latecheck(ps) ==
  Strict(str_chunk32(encode_schema(Version, ps)), LAMBDA sc :
    IF ~sc.ok THEN [kind |-> "Err", err |-> sc.err]
    ELSE Strict(PassOne(ps, [ok |-> TRUE, err |-> "", i |-> 0,
                             out |-> <<sc.v>>, m |-> << >>]),
                LAMBDA one :
      IF ~one.ok THEN [kind |-> "Err", err |-> one.err]
      ELSE IF Len(ps) > ParamLimit THEN [kind |-> "Err", err |-> "TooManyParams"]
      ELSE Strict(PassTwo(ps, one.m,
                          [panic |-> FALSE, i |-> 0, offset |-> Len(one.out) * WordBytes,
                           out |-> one.out, writes |-> << >>]),
                  LAMBDA two :
        IF two.panic THEN [kind |-> "Panic"]
        ELSE [kind |-> "Ok", v |-> two.out, fixed |-> one.out,
              writes |-> two.writes])))

\* the body of encode for the parameters ps
EncodeParams(ps) ==
  IF Len(ps) > ParamLimit THEN [kind |-> "Err", err |-> "TooManyParams"]
  ELSE Strict(str_chunk32(encode_schema(Version, ps)), LAMBDA sc :
    IF ~sc.ok THEN [kind |-> "Err", err |-> sc.err]
    ELSE Strict(PassOne(ps, [ok |-> TRUE, err |-> "", i |-> 0,
                             out |-> <<sc.v>>, m |-> << >>]),
                LAMBDA one :
      IF ~one.ok THEN [kind |-> "Err", err |-> one.err]
      ELSE Strict(PassTwo(ps, one.m,
                          [panic |-> FALSE, i |-> 0, offset |-> Len(one.out) * WordBytes,
                           out |-> one.out, writes |-> << >>]),
                  LAMBDA two :
        IF two.panic THEN [kind |-> "Panic"]
        ELSE [kind |-> "Ok", v |-> two.out, fixed |-> one.out,
              writes |-> two.writes])))

\* ABI::encode with what it did: kind is "Ok" (v the stream, fixed the
\* stream after the first loop, writes the positions written by the second
\* loop), "Err" (err) or "Panic"
encode_run(abi) == Strict(abi.params, EncodeParams)

\* ABI::encode: Result<Vec<U256>, EncodingError>
encode(abi) ==
  Strict(encode_run(abi), LAMBDA r :
    IF r.kind = "Ok" THEN [kind |-> "Ok", v |-> r.v] ELSE r)

\* DecodingError values
NoInput == [type |-> "NoInput", ch |-> << >>]
NoSchema == [type |-> "NoSchema", ch |-> << >>]
InvalidSchema == [type |-> "InvalidSchema", ch |-> << >>]
InvalidVersion == [type |-> "InvalidVersion", ch |-> << >>]
InvalidSchemaCharacter(ch) == [type |-> "InvalidSchemaCharacter", ch |-> ch]
InvalidUtf8String == [type |-> "InvalidUtf8String", ch |-> << >>]

\* arr[i] of the code, i 0-based
At(arr, i) == arr[i + 1]

InRange(arr, i) == i >= 0 /\ i < Len(arr)

FcOk(p, offset) == [kind |-> "Ok", param |-> p, offset |-> offset]
FcErr(e, offset) == [kind |-> "Err", err |-> e, offset |-> offset]
FcPanic == [kind |-> "Panic"]

\* faulty from_chunks_b: no date is recognised
from_chunks_b_nodate(name, value, strict) ==
  Strict(chunk_to_str(value), LAMBDA t :
    IF ~strict /\ t.ok
    THEN IF t.v = <<116, 114, 117, 101>> THEN Bool(name, TRUE)
         ELSE IF t.v = <<102, 97, 108, 115, 101>> THEN Bool(name, FALSE)
         ELSE String32(name, t.v)
    ELSE Bytes32(name, value))

\* faulty from_chunks_b: the strict flag is not looked at
from_chunks_b_nostrict(name, value, strict) ==
  Strict(chunk_to_str(value), LAMBDA t :
    IF t.ok
    THEN IF t.v = <<116, 114, 117, 101>> THEN Bool(name, TRUE)
         ELSE IF t.v = <<102, 97, 108, 115, 101>> THEN Bool(name, FALSE)
         ELSE Strict(str_to_date(t.v), LAMBDA d :
                IF d.some THEN Date(name, d.year, d.month, d.day)
                ELSE String32(name, t.v))
    ELSE Bytes32(name, value))

\* the 'b' branch of from_chunks once the value word is read
from_chunks_b(name, value, strict) ==
  Strict(chunk_to_str(value), LAMBDA t :
    IF ~strict /\ t.ok
    THEN IF t.v = <<116, 114, 117, 101>> THEN Bool(name, TRUE)
         ELSE IF t.v = <<102, 97, 108, 115, 101>> THEN Bool(name, FALSE)
         ELSE Strict(str_to_date(t.v), LAMBDA d :
                IF d.some THEN Date(name, d.year, d.month, d.day)
                ELSE String32(name, t.v))
    ELSE Bytes32(name, value))

\* faulty from_chunks_dyn: the payload is read from the length word on
from_chunks_dyn_offbyone(ch, name, arr, offset) ==
  Strict(as_usize(At(arr, offset)), LAMBDA value_index :
  Strict(value_index \div WordBytes, LAMBDA data_offset :
    IF value_index < 0 \/ ~InRange(arr, data_offset) THEN FcPanic
    ELSE Strict(as_usize(At(arr, data_offset)), LAMBDA value_size :
         Strict(chunk_to_vec(arr, data_offset, value_size), LAMBDA value :
           IF value_size < 0 \/ ~value.ok THEN FcPanic
           ELSE IF ch = <<ch_B>> THEN FcOk(Bytes(name, value.v), offset + 1)
           ELSE IF ~IsUtf8(value.v) THEN FcErr(InvalidUtf8String, offset + 1)
           ELSE FcOk(String(name, value.v), offset + 1)))))

\* the 'B' / 'S' branch of from_chunks: offset is the index of the pointer word
from_chunks_dyn(ch, name, arr, offset) ==
  Strict(as_usize(At(arr, offset)), LAMBDA value_index :
  Strict(value_index \div WordBytes, LAMBDA data_offset :
    IF value_index < 0 \/ ~InRange(arr, data_offset) THEN FcPanic
    ELSE Strict(as_usize(At(arr, data_offset)), LAMBDA value_size :
         Strict(chunk_to_vec(arr, data_offset + 1, value_size), LAMBDA value :
           IF value_size < 0 \/ ~value.ok THEN FcPanic
           ELSE IF ch = <<ch_B>> THEN FcOk(Bytes(name, value.v), offset + 1)
           ELSE IF ~IsUtf8(value.v) THEN FcErr(InvalidUtf8String, offset + 1)
           ELSE FcOk(String(name, value.v), offset + 1)))))

\* faulty from_chunks_i: the value word taken as the magnitude, the sign lost
from_chunks_i_unsigned(name, value) == Int256(name, value, 1)

\* the 'i' branch of from_chunks once the value word is read
from_chunks_i(name, value) ==
  Strict(chunk_to_int(value), LAMBDA r : Int256(name, r.value, r.sign))

\* from_chunks: the parameter read at word index offset (0-based) for schema
\* character ch, with the offset it leaves; an index past the end panics
from_chunks(ch, arr, offset, strict) ==
  IF ~InRange(arr, offset) THEN FcPanic
  ELSE Strict(chunk_to_str(At(arr, offset)), LAMBDA nm :
       Strict(offset + 1, LAMBDA offs :
         IF ~nm.ok THEN FcErr(InvalidUtf8String, offset)
         ELSE IF ch \in {<<ch_b>>, <<ch_u>>, <<ch_a>>, <<ch_i>>, <<ch_B>>, <<ch_S>>}
                 /\ ~InRange(arr, offs) THEN FcPanic
         ELSE IF ch = <<ch_b>>
           THEN FcOk(from_chunks_b(nm.v, At(arr, offs), strict), offs + 1)
         ELSE IF ch = <<ch_u>> THEN FcOk(Uint256(nm.v, At(arr, offs)), offs + 1)
         ELSE IF ch = <<ch_a>>
           THEN FcOk(Address(nm.v, chunk_to_address(At(arr, offs))), offs + 1)
         ELSE IF ch = <<ch_i>>
           THEN FcOk(from_chunks_i(nm.v, At(arr, offs)), offs + 1)
         ELSE IF ch = <<ch_B>> \/ ch = <<ch_S>>
           THEN from_chunks_dyn(ch, nm.v, arr, offs)
         ELSE FcErr(InvalidSchemaCharacter(ch), offs)))

\* body of the per-character loop of decode for the first character of
\* st.cs, at word index st.offs; a panic ends the loop
DecodeStep(input, strict, st) ==
  IF Len(st.cs) = 0 \/ st.panic THEN st
  ELSE Strict(from_chunks(Head(st.cs), input, st.offs, strict), LAMBDA r :
         IF r.kind = "Panic" THEN [st EXCEPT !.panic = TRUE]
         ELSE [panic |-> FALSE, cs |-> Tail(st.cs), offs |-> r.offset,
               params |-> IF r.kind = "Ok" THEN Append(st.params, r.param)
                          ELSE st.params,
               errors |-> IF r.kind = "Err" THEN Append(st.errors, r.err)
                          ELSE st.errors])

DecodeLoop(input, strict, st) ==
  Iterate(LAMBDA t : DecodeStep(input, strict, t), st, Len(st.cs))

\* decode once the schema string is read
DecodeSchema(schema, input, strict) ==
  IF Len(schema) > 1
  THEN Strict(chars(schema), LAMBDA cs :
         IF cs[1] # <<Version>> THEN [kind |-> "Err", err |-> InvalidVersion]
         ELSE Strict(DecodeLoop(input, strict,
                                [panic |-> FALSE, cs |-> Tail(cs), offs |-> 1,
                                 params |-> << >>, errors |-> << >>]),
                     LAMBDA r :
                IF r.panic THEN [kind |-> "Panic"]
                ELSE IF Len(r.errors) > 0 THEN [kind |-> "Err", err |-> r.errors[1]]
                ELSE [kind |-> "Ok", abi |-> ABI_new(r.params)]))
  ELSE [kind |-> "Ok", abi |-> ABI_new(<< >>)]

\* faulty decode: the all-zero schema word is not looked for
decode_nozerocheck(input, strict) ==
  IF Len(input) < 1 THEN [kind |-> "Err", err |-> NoInput]
  ELSE Strict(chunk_to_str(At(input, 0)), LAMBDA sc :
         IF ~sc.ok THEN [kind |-> "Err", err |-> InvalidUtf8String]
         ELSE DecodeSchema(sc.v, input, strict))

\* ABI::decode: kind is "Ok" (abi), "Err" (err) or "Panic"
decode(input, strict) ==
  IF Len(input) < 1 THEN [kind |-> "Err", err |-> NoInput]
  ELSE IF is_zero(At(input, 0)) THEN [kind |-> "Err", err |-> NoSchema]
  ELSE Strict(chunk_to_str(At(input, 0)), LAMBDA sc :
         IF ~sc.ok THEN [kind |-> "Err", err |-> InvalidUtf8String]
         ELSE DecodeSchema(sc.v, input, strict))

\* faulty decode_with_schema: the schema word is put behind the data
decode_with_schema_append(schema, data, strict) ==
  Strict(str_chunk32(schema), LAMBDA sc :
    IF ~sc.ok THEN [kind |-> "Err", err |-> InvalidSchema]
    ELSE decode(data \o <<sc.v>>, strict))

\* ABI::decode_with_schema: the schema as a word ahead of a copy of the data
decode_with_schema(schema, data, strict) ==
  Strict(str_chunk32(schema), LAMBDA sc :
    IF ~sc.ok THEN [kind |-> "Err", err |-> InvalidSchema]
    ELSE decode(<<sc.v>> \o data, strict))

\* ------------------------------------------------------------------ inputs
Rep(b, n) == AsTuple([i \in 1..n |-> b])

\* names: "", "a", "a\0", "é", a 31-byte name, a 32-byte name
NameEmpty == << >>
NameA == <<97>>
NameNul == <<97, 0>>
NameUtf == <<195, 169>>
NameMax == Rep(110, ShortStringMax)
NameLong == Rep(110, ShortStringMax + 1)
NameLonger == Rep(110, StringTooLongText + 1)
Names == {NameEmpty, NameA, NameNul, NameUtf, NameMax, NameLong}

StrTrue == <<116, 114, 117, 101>>
StrFalse == <<102, 97, 108, 115, 101>>
StrDate == <<50, 48, 50, 49, 45, 48, 49, 45, 49, 57>>
StrText == <<83, 111, 109, 101>>

WordOf(s) == PadRight(s, WordBytes)
WordMax == Rep(255, WordBytes)
WordHigh == <<128>> \o Zeros(WordBytes - 1)
WordHighLess == <<127>> \o Rep(255, WordBytes - 1)
WordHighMore == <<128>> \o Zeros(WordBytes - 2) \o <<1>>
WordBadUtf == <<255>> \o Zeros(WordBytes - 1)

AddressOne == AsTuple([i \in 1..AddressBytes |-> i])
AddressValues == {Zeros(AddressBytes), AddressOne, Rep(255, AddressBytes)}
BytesValues ==
  {<< >>, <<18, 58, 188>>, <<1, 0>>, <<255>>, Rep(7, WordBytes), Rep(9, WordBytes + 1)}
WordValues == {ZeroWord, WordOf(StrTrue), WordMax, U256_from(2000), WordBadUtf}
StringValues == {<< >>, <<104, 105>>, <<104, 0>>, NameUtf, Rep(120, WordBytes + 1)}
Magnitudes ==
  {ZeroWord, U256_from(1), U256_from(1000), WordHighLess, WordHigh, WordHighMore, WordMax}
Signs == {-2, -1, 0, 1, 2}
Dates ==
  {<<2021, 1, 19>>, <<0, 1, 1>>, <<9999, 12, 31>>, <<-1, 1, 1>>, <<10000, 1, 1>>,
   <<2021, 0, 1>>, <<2021, 13, 1>>, <<2021, 1, 0>>, <<2021, 1, 32>>}
String32Values == {<< >>, StrText, StrTrue, StrDate, NameNul, NameMax, NameLong}

\* the parameters of the one-parameter lists
SingleParams ==
  UNION { {Address(n, v) : v \in AddressValues}
          \cup {Bool(n, v) : v \in BOOLEAN}
          \cup {Bytes(n, v) : v \in BytesValues}
          \cup {Bytes32(n, v) : v \in WordValues}
          \cup {Date(n, d[1], d[2], d[3]) : d \in Dates}
          \cup {Int256(n, v, sg) : v \in Magnitudes, sg \in Signs}
          \cup {String(n, v) : v \in StringValues}
          \cup {String32(n, v) : v \in String32Values}
          \cup {Uint256(n, v) : v \in WordValues} : n \in Names }

\* the parameters of the longer lists
MultiParams ==
  { Address(NameA, AddressOne),
    Bool(NameA, TRUE),
    Bytes(NameA, << >>),
    Bytes(NameMax, Rep(9, WordBytes + 1)),
    Bytes32(NameA, WordOf(StrText)),
    Date(NameA, 2021, 1, 19),
    Int256(NameA, U256_from(1000), -1),
    String(NameUtf, <<104, 105>>),
    String(NameA, << >>),
    String32(NameA, StrText),
    Uint256(NameA, U256_from(2000)) }

RECURSIVE ListsOf(_, _)
ListsOf(S, n) ==
  IF n = 0 THEN {<< >>}
  ELSE {Append(l, x) : l \in ListsOf(S, n - 1), x \in S}

\* lists at the parameter limit of encode: 30, 31 and 32 parameters
LongLists ==
  { AsTuple([i \in 1..n |-> IF i = 2 THEN Bytes(NameA, <<18, 58, 188>>)
                            ELSE IF i = 4 THEN String(NameUtf, Rep(120, WordBytes + 1))
                            ELSE Uint256(NameA, U256_from(i))])
    : n \in {ParamLimit - 1, ParamLimit, ParamLimit + 1} }

\* parameters encode rejects: a name or a String32 value of 32 bytes, a
\* month, a day or a year out of range
RejectedParams ==
  { Bytes(NameLong, <<18, 58, 188>>), String(NameLong, <<104, 105>>),
    Uint256(NameLong, U256_from(2000)), String32(NameA, NameLong),
    String(NameLonger, <<104, 105>>), String32(NameA, NameLonger),
    Date(NameA, 2021, 13, 1), Date(NameA, 2021, 1, 32), Date(NameA, 10000, 1, 1) }

\* lists around the parameter limit with a rejected parameter in the first
\* or in the last place
RejectedLists ==
  { AsTuple([i \in 1..n |-> IF i = (IF last THEN n ELSE 1) THEN p
                            ELSE Uint256(NameA, U256_from(i))])
    : n \in {2, ParamLimit - 1, ParamLimit, ParamLimit + 1, ParamLimit + 2},
      last \in BOOLEAN,
      p \in RejectedParams }

ParamLists ==
  {<< >>} \cup {<<p>> : p \in SingleParams}
  \cup UNION {ListsOf(MultiParams, n) : n \in 2..MaxParams}
  \cup LongLists
  \cup RejectedLists

\* word streams handed to decode directly
SchemaWords ==
  { WordOf(<<Version>>), WordOf(<<50>>), WordOf(<<50, ch_b>>), WordOf(<<Version, ch_b>>),
    WordOf(<<97>>), WordOf(NameUtf), WordOf(<<Version, Version>>),
    <<50>> \o Rep(255, WordBytes - 1), WordBadUtf, WordMax, ZeroWord,
    U256_from(1), U256_from(Version) }

\* value words of a 'b' slot: "true", "false", a date, text, "True", a date
\* without zero padding, the zero word, words that are no UTF-8 text
SlotWords ==
  { WordOf(StrTrue), WordOf(StrFalse), WordOf(StrDate), WordOf(StrText),
    WordOf(<<84, 114, 117, 101>>), WordOf(<<50, 48, 50, 49, 45, 49, 45, 49, 57>>),
    WordOf(<<116, 114, 117, 101, 0, 1>>),
    ZeroWord, WordBadUtf, WordMax, WordHigh, U256_from(2000) }

\* the stream of tests::it_decodes_bytes and streams with the same layout
BytesStream(ch, ptr, len, payload) ==
  <<WordOf(<<Version, ch>>), WordOf(NameA), U256_from(ptr), U256_from(len), payload>>

\* streams whose word 0 is all zero, with the words of other streams behind
ZeroSchemaInputs ==
  { <<ZeroWord, ZeroWord>>,
    <<ZeroWord, WordOf(<<Version, ch_b>>), WordOf(NameA), WordOf(StrTrue)>>,
    <<ZeroWord, WordOf(NameA), U256_from(2000)>>,
    <<ZeroWord, WordBadUtf, WordMax>>,
    <<ZeroWord, WordOf(NameA), U256_from(96), U256_from(3), WordOf(<<18, 58, 188>>)>> }

\* schema characters no branch of from_chunks knows: 'x', 'y'
ch_x == 120
ch_y == 121

\* streams whose schema holds a character outside a, b, B, i, S, u: alone,
\* ahead of and behind other characters, with all the words of its slots,
\* with none of them, with a name word that is no text, and ahead of a
\* dynamic parameter
InvalidCharInputs ==
  { <<WordOf(<<Version, ch_x>>)>>,
    <<WordOf(<<Version, ch_x>>), WordOf(NameA)>>,
    <<WordOf(<<Version, ch_x>>), WordOf(NameA), U256_from(2000)>>,
    <<WordOf(<<Version, ch_x>>), WordBadUtf, U256_from(2000)>>,
    <<WordOf(<<Version>> \o NameUtf), WordOf(NameA), U256_from(2000)>>,
    <<WordOf(<<Version, ch_x, ch_a>>), WordOf(NameA), U256_from(2000),
      WordOf(NameUtf), WordMax>>,
    <<WordOf(<<Version, ch_u, ch_x>>), WordOf(NameA), U256_from(2000),
      WordOf(NameUtf), WordMax>>,
    <<WordOf(<<Version, ch_u, ch_x>>), WordBadUtf, U256_from(2000),
      WordOf(NameUtf), WordMax>>,
    <<WordOf(<<Version, ch_u, ch_x>>), WordOf(NameA), U256_from(2000)>>,
    <<WordOf(<<Version, ch_x, ch_y>>), WordOf(NameA), U256_from(2000),
      WordOf(NameUtf), WordMax>>,
    <<WordOf(<<Version, ch_x, ch_B>>), WordOf(NameA), U256_from(2000),
      WordOf(NameUtf), U256_from(160), U256_from(0)>>,
    <<WordOf(<<Version, ch_x, ch_u, ch_u>>), WordOf(NameA), U256_from(2000),
      WordOf(NameUtf), WordMax, WordOf(NameA), WordMax>> }

\* streams that end before the words their schema asks for, and Bytes and
\* String slots whose pointer or length reaches past the end of the stream
\* or does not fit usize
OutOfRangeInputs ==
  { <<WordOf(<<Version, ch_u>>)>>,
    <<WordOf(<<Version, ch_u>>), WordOf(NameA)>>,
    <<WordOf(<<Version, ch_a, ch_i>>), WordOf(NameA), U256_from(2000), WordOf(NameA)>>,
    <<WordOf(<<Version, ch_B>>), WordOf(NameA)>>,
    <<WordOf(<<Version, ch_B>>), WordOf(NameA), U256_from(96)>>,
    <<WordOf(<<Version, ch_S>>), WordOf(NameA), U256_from(320), U256_from(3),
      WordOf(<<18, 58, 188>>)>>,
    <<WordOf(<<Version, ch_B>>), WordOf(NameA), WordMax, U256_from(3),
      WordOf(<<18, 58, 188>>)>>,
    <<WordOf(<<Version, ch_B>>), WordOf(NameA), U256_from(96), WordMax,
      WordOf(<<18, 58, 188>>)>>,
    <<WordOf(<<Version, ch_S>>), WordOf(NameA), U256_from(96), U256_from(WordBytes + 1),
      WordOf(<<18, 58, 188>>)>>,
    <<WordOf(<<Version, ch_B>>), WordOf(NameA), U256_from(95), U256_from(3),
      WordOf(<<18, 58, 188>>)>> }

RawInputs ==
  {<< >>}
  \cup {<<w>> : w \in SchemaWords}
  \cup {<<WordOf(<<Version, ch_b>>), n, v>> : n \in {WordOf(NameA), ZeroWord, WordBadUtf},
                                               v \in SlotWords}
  \cup {BytesStream(ch, 96, 3, WordOf(<<18, 58, 188>>)) : ch \in {ch_B, ch_S}}
  \cup {BytesStream(ch_S, 96, 1, WordBadUtf)}
  \cup ZeroSchemaInputs
  \cup InvalidCharInputs
  \cup OutOfRangeInputs

\* schema strings handed to decode_with_schema: "", "1", "2", "1b", "1u",
\* "1B", "1S", "1x", "1ub", 31 bytes, 32 bytes, 33 bytes
SchemaStrings ==
  { << >>, <<Version>>, <<50>>, <<Version, ch_b>>, <<Version, ch_u>>, <<Version, ch_B>>,
    <<Version, ch_S>>, <<Version, ch_x>>, <<Version, ch_u, ch_b>>,
    <<Version>> \o Rep(ch_u, ShortStringMax - 1),
    <<Version>> \o Rep(ch_u, ShortStringMax),
    <<Version>> \o Rep(ch_u, StringTooLongText) }

\* data handed to decode_with_schema: the words behind a schema word
DataInputs ==
  { << >>,
    <<WordOf(NameA), WordOf(StrTrue)>>,
    <<WordOf(NameA), WordBadUtf>>,
    <<WordBadUtf, WordOf(StrTrue)>>,
    <<WordOf(NameA), U256_from(96), U256_from(3), WordOf(<<18, 58, 188>>)>>,
    <<WordOf(NameA), U256_from(2000), WordOf(NameUtf), WordOf(StrDate)>>,
    AsTuple([i \in 1..(2 * (ShortStringMax - 1)) |->
               IF i % 2 = 1 THEN WordOf(NameA) ELSE U256_from(i)]) }

\* ------------------------------------------------------------ state machine
VARIABLES
  op,      \* the last operation: "init", "encode", "roundtrip", "decode"
  params,  \* the parameter list last handed to ABI::new
  enc,     \* what encode_run returned for ABI::new(params)
  input,   \* the word stream last handed to decode
  strict,  \* the strict flag last handed to decode
  schema,  \* the schema string last handed to decode_with_schema
  dec,     \* what decode returned
  \* get_batches (reader.rs)
  genesis,     \* argument genesis
  max,         \* argument max: a block number, or NoMax for None
  batch_size,  \* argument batch_size
  max_block,   \* local max_block
  from,        \* local from
  res,         \* local res: the batches pushed so far
  pc           \* where get_batches is: "idle", "start", "loop", "done", "panic"

codecVars == <<op, params, enc, input, strict, schema, dec>>
batchVars == <<genesis, max, batch_size, max_block, from, res, pc>>
vars == <<codecVars, batchVars>>

\* Option::None of the argument max
NoMax == -1

\* get_batches has not been called
BatchIdle ==
  /\ genesis = 0
  /\ max = NoMax
  /\ batch_size = 1
  /\ max_block = 0
  /\ from = 0
  /\ res = << >>
  /\ pc = "idle"

None == [kind |-> "None"]

Init ==
  /\ op = "init"
  /\ params = << >>
  /\ enc = None
  /\ input = << >>
  /\ strict = TRUE
  /\ schema = << >>
  /\ dec = None
  /\ BatchIdle

\* ABI::new(ps).encode()
Encode ==
  \E ps \in ParamLists :
    /\ op = "init"
    /\ op' = "encode"
    /\ params' = ps
    /\ enc' = encode_run(ABI_new(ps))
    /\ input' = << >>
    /\ strict' = TRUE
    /\ schema' = << >>
    /\ dec' = None
    /\ UNCHANGED batchVars

\* ABI::decode(&encoded, s) of the stream encode returned
DecodeEncoded ==
  \E s \in BOOLEAN :
    /\ op = "encode"
    /\ enc.kind = "Ok"
    /\ op' = "roundtrip"
    /\ input' = enc.v
    /\ strict' = s
    /\ dec' = decode(enc.v, s)
    /\ UNCHANGED <<params, enc, schema>>
    /\ UNCHANGED batchVars

\* ABI::decode(&ws, s) of a stream from elsewhere
Decode ==
  \E ws \in RawInputs, s \in BOOLEAN :
    /\ op = "init"
    /\ op' = "decode"
    /\ params' = << >>
    /\ enc' = None
    /\ input' = ws
    /\ strict' = s
    /\ schema' = << >>
    /\ dec' = decode(ws, s)
    /\ UNCHANGED batchVars

\* ABI::decode_with_schema(sch, &ws, s)
DecodeWithSchema ==
  \E sch \in SchemaStrings, ws \in DataInputs, s \in BOOLEAN :
    /\ op = "init"
    /\ op' = "decode_with_schema"
    /\ params' = << >>
    /\ enc' = None
    /\ input' = ws
    /\ strict' = s
    /\ schema' = sch
    /\ dec' = decode_with_schema(sch, ws, s)
    /\ UNCHANGED batchVars

Next == Encode \/ DecodeEncoded \/ Decode \/ DecodeWithSchema

Spec == Init /\ [][Next]_vars

\* ------------------------------------------------- get_batches (reader.rs)
\* get_batches(eth, g, m, b) is called
BatchInit ==
  /\ op = "batches"
  /\ params = << >>
  /\ enc = None
  /\ input = << >>
  /\ strict = TRUE
  /\ schema = << >>
  /\ dec = None
  /\ genesis \in 0..MaxBlock
  /\ max \in {NoMax} \cup (0..MaxBlock)
  /\ batch_size \in 1..MaxBatchSize
  /\ max_block = 0
  /\ from = 0
  /\ res = << >>
  /\ pc = "start"

\* let max_block = match max: the argument when it is Some; for None the
\* height the node reports, or the panic of expect when the request fails;
\* then let mut from = genesis and let mut res = vec![]
ResolveMax ==
  /\ pc = "start"
  /\ \/ /\ max # NoMax
        /\ max_block' = max
        /\ pc' = "loop"
     \/ /\ max = NoMax
        /\ \E h \in 0..MaxBlock : max_block' = h
        /\ pc' = "loop"
     \/ /\ max = NoMax
        /\ max_block' = max_block
        /\ pc' = "panic"
  /\ from' = genesis
  /\ res' = << >>
  /\ UNCHANGED <<genesis, max, batch_size>>
  /\ UNCHANGED codecVars

\* faulty BatchTo: a full batch ends at from + batch_size
BatchTo_inclusive(f, size, last) ==
  IF f + size > last THEN last ELSE f + size

\* the value of `to` in the loop body
BatchTo(f, size, last) ==
  IF f + size > last THEN last ELSE f + size - 1

\* one turn of while from <= max_block
BatchLoop ==
  /\ pc = "loop"
  /\ from <= max_block
  /\ res' = Append(res, [from |-> from, to |-> BatchTo(from, batch_size, max_block)])
  /\ from' = from + batch_size
  /\ UNCHANGED <<genesis, max, batch_size, max_block, pc>>
  /\ UNCHANGED codecVars

\* the loop ends and res is returned
BatchReturn ==
  /\ pc = "loop"
  /\ ~(from <= max_block)
  /\ pc' = "done"
  /\ UNCHANGED <<genesis, max, batch_size, max_block, from, res>>
  /\ UNCHANGED codecVars

BatchNext == ResolveMax \/ BatchLoop \/ BatchReturn

\* the future of get_batches is polled until it is ready
BatchSpec == BatchInit /\ [][BatchNext]_vars /\ WF_vars(BatchNext)

\* ------------------------------------------------------------------ claims
Encoded == op \in {"encode", "roundtrip"}

RoundTrip(s) == op = "roundtrip" /\ strict = s

DecodedTo(abi) == dec = [kind |-> "Ok", abi |-> abi]

ShortName(n) == Len(n) <= ShortStringMax

\* the last byte of the name is not zero (the empty name has none)
NoZeroEnd(n) == Len(n) = 0 \/ n[Len(n)] # 0

One(tags) == Len(params) = 1 /\ params[1].tag \in tags

\* encode succeeds and, once decoded under strict = s, gives back ABI::only
RoundTripsOne(s) ==
  /\ enc.kind = "Ok"
  /\ RoundTrip(s) => DecodedTo(ABI_only(params[1]))

StrictVariants == {"Address", "Bytes", "Bytes32", "String", "Uint256"}

\* C1 as stated: for every Address, Bytes, Bytes32, String or Uint256
\* parameter whose name has at most 31 bytes, the strict decoding of the
\* encoding of ABI::only(p) succeeds and equals ABI::only(p).
C1_Original ==
  (Encoded /\ One(StrictVariants) /\ ShortName(params[1].name))
    => RoundTripsOne(TRUE)

\* C1 (amended): for every Address, Bytes, Bytes32, String or Uint256
\* parameter whose name has at most 31 bytes and does not end in a zero
\* byte, the strict decoding of the encoding of ABI::only(p) succeeds and
\* equals ABI::only(p).
C1_StrictRoundTrip ==
  (Encoded /\ One(StrictVariants) /\ ShortName(params[1].name)
     /\ NoZeroEnd(params[1].name))
    => RoundTripsOne(TRUE)

C1_Witness ==
  /\ RoundTrip(TRUE) /\ One({"String"})
  /\ params[1].name = NameMax /\ Len(params[1].value) > WordBytes
  /\ DecodedTo(ABI_only(params[1]))

DateInRange(p) ==
  /\ p.year >= 0 /\ p.year <= 9999
  /\ p.month >= 1 /\ p.month <= 12
  /\ p.day >= 1 /\ p.day <= 31

BoolOrDate ==
  \/ One({"Bool"})
  \/ One({"Date"}) /\ DateInRange(params[1])

\* C2 as stated: for every Bool parameter and every Date parameter with
\* year in 0..9999, month in 1..12 and day in 1..31, the non-strict decoding
\* of the encoding of ABI::only(p) succeeds and equals ABI::only(p); the
\* name is a short string, as the data model has it.
C2_Original ==
  (Encoded /\ BoolOrDate /\ ShortName(params[1].name)) => RoundTripsOne(FALSE)

\* C2 (amended): for every Bool parameter and every Date parameter with
\* year in 0..9999, month in 1..12 and day in 1..31, whose name has at most
\* 31 bytes and does not end in a zero byte, the non-strict decoding of the
\* encoding of ABI::only(p) succeeds and equals ABI::only(p).
C2_NonStrictRoundTrip ==
  (Encoded /\ BoolOrDate /\ ShortName(params[1].name) /\ NoZeroEnd(params[1].name))
    => RoundTripsOne(FALSE)

C2_Witness ==
  /\ RoundTrip(FALSE) /\ One({"Date"})
  /\ params[1].year = 9999 /\ params[1].name = NameUtf
  /\ DecodedTo(ABI_only(params[1]))

\* C3: for every String32 parameter whose name and value have at most 31
\* bytes, the non-strict decoding of the encoding of ABI::only(p) succeeds
\* and equals ABI::only(p); here for the names and values that do not end
\* in a zero byte.
C3_String32RoundTrip ==
  (Encoded /\ One({"String32"})
     /\ ShortName(params[1].name) /\ NoZeroEnd(params[1].name)
     /\ ShortName(params[1].value) /\ NoZeroEnd(params[1].value))
    => RoundTripsOne(FALSE)

High == <<128>> \o Zeros(WordBytes - 1)

\* magnitude below 2^255
BelowHigh(v) == v[1] < 128

\* C4 as stated: for every Int256 parameter, of any magnitude and with a
\* sign that is -1 or non-negative, the strict decoding of the encoding of
\* ABI::only(p) equals ABI::only(p); here for the names that round-trip.
C4_Original ==
  (Encoded /\ One({"Int256"}) /\ ShortName(params[1].name) /\ NoZeroEnd(params[1].name)
     /\ params[1].sign >= -1)
    => RoundTripsOne(TRUE)

\* C4 (amended): for every Int256 parameter whose name has at most 31 bytes
\* and does not end in a zero byte, and whose sign is +1 with a magnitude
\* below 2^255, or -1 with a magnitude from 1 to 2^255, the strict decoding
\* of the encoding of ABI::only(p) equals ABI::only(p).
C4_Int256RoundTrip ==
  (Encoded /\ One({"Int256"}) /\ ShortName(params[1].name) /\ NoZeroEnd(params[1].name)
     /\ \/ params[1].sign = 1 /\ BelowHigh(params[1].value)
        \/ /\ params[1].sign = -1
           /\ ~is_zero(params[1].value)
           /\ (BelowHigh(params[1].value) \/ params[1].value = High))
    => RoundTripsOne(TRUE)

C4_Witness ==
  /\ RoundTrip(TRUE) /\ One({"Int256"})
  /\ params[1].sign = -1 /\ params[1].value = High
  /\ input[3] = High
  /\ DecodedTo(ABI_only(params[1]))

\* the schema of the stream handed to decode is '1' followed by 'b's, the
\* stream holds the two words of every slot, and every name word is text
SlotsOnly ==
  /\ op \in {"decode", "roundtrip"}
  /\ Len(input) >= 1
  /\ chunk_to_str(input[1]).ok
  /\ LET sch == chunk_to_str(input[1]).v
     IN  /\ Len(sch) >= 2
         /\ sch[1] = Version
         /\ \A k \in 2..Len(sch) : sch[k] = ch_b
         /\ Len(input) >= 2 * Len(sch) - 1
         /\ \A k \in 1..(Len(sch) - 1) : chunk_to_str(input[2 * k]).ok

\* what the policy of the 'b' slot makes of the value word w: p is the
\* parameter decoded for the slot
SlotPolicy(p, w) ==
  IF strict \/ ~chunk_to_str(w).ok THEN p.tag = "Bytes32" /\ p.value = w
  ELSE LET t == chunk_to_str(w).v
       IN  IF t = StrTrue THEN p.tag = "Bool" /\ p.flag = TRUE
           ELSE IF t = StrFalse THEN p.tag = "Bool" /\ p.flag = FALSE
           ELSE IF str_to_date(t).some
             THEN /\ p.tag = "Date"
                  /\ <<p.year, p.month, p.day>>
                       = <<str_to_date(t).year, str_to_date(t).month, str_to_date(t).day>>
           ELSE p.tag = "String32" /\ p.value = t

\* C5: in a stream whose schema holds only 'b' slots, decode never fails on
\* a value word: under strict every slot yields Bytes32 with the raw word;
\* otherwise the word yields Bool{true} for "true", Bool{false} for "false",
\* else Date when it reads YYYY-MM-DD, else String32 with its text, and
\* Bytes32 with the raw word when it is no UTF-8 text.
C5_SlotPolicy ==
  SlotsOnly =>
    /\ dec.kind = "Ok"
    /\ Len(dec.abi.params) = Len(chunk_to_str(input[1]).v) - 1
    /\ \A k \in 1..Len(dec.abi.params) :
         /\ dec.abi.params[k].name = chunk_to_str(input[2 * k]).v
         /\ SlotPolicy(dec.abi.params[k], input[2 * k + 1])

C5_Witness ==
  /\ SlotsOnly /\ op = "decode" /\ ~strict
  /\ input[3] = WordBadUtf
  /\ dec.kind = "Ok" /\ dec.abi.params[1].tag = "Bytes32"

\* the parameters C6 draws from: Address, Bytes, Bytes32, String, Uint256,
\* and Int256 with sign +1 and a magnitude below 2^255 or sign -1 and a
\* non-zero magnitude below 2^255
C6_Param(p) ==
  \/ p.tag \in StrictVariants
  \/ /\ p.tag = "Int256"
     /\ BelowHigh(p.value)
     /\ (p.sign = 1 \/ (p.sign = -1 /\ ~is_zero(p.value)))

C6_Names ==
  \A k \in 1..Len(params) : C6_Param(params[k]) /\ ShortName(params[k].name)

C6_RoundTrips ==
  /\ enc.kind = "Ok"
  /\ RoundTrip(TRUE) => DecodedTo(ABI_new(params))
  /\ (RoundTrip(TRUE) /\ Len(params) = 0) => DecodedTo(ABI_none)

IsDynamic(p) == p.tag \in {"Bytes", "String"}

\* number of 32-byte words that hold n bytes
CeilWords(n) == (n + WordBytes - 1) \div WordBytes

\* C7: in the stream of a successful encode, for every Bytes or String
\* parameter at index i (0-based) the word at index 2i+2 is a multiple of
\* 32, not below 32*(1+2*|params|) and inside the stream, and the word at
\* a 32nd of it is the length word of that parameter: it holds the byte
\* length of the payload and the words of the payload follow it.
C7_OffsetCorrect ==
  (Encoded /\ enc.kind = "Ok") =>
    \A k \in 1..Len(params) :
      IsDynamic(params[k]) =>
        LET off == as_usize(enc.v[2 * k + 1])
            at == off \div WordBytes
            len == Len(params[k].value)
        IN  /\ off >= 0
            /\ off % WordBytes = 0
            /\ off >= WordBytes * (1 + 2 * Len(params))
            /\ at < Len(enc.v)
            /\ enc.v[at + 1] = U256_from(len)
            /\ at + CeilWords(len) < Len(enc.v)
            /\ SubSeq(enc.v, at + 2, at + 1 + CeilWords(len)) = chunks(params[k].value)

\* a dynamic parameter with an empty payload ahead of another dynamic one
C7_Witness ==
  /\ op = "encode" /\ enc.kind = "Ok" /\ Len(params) = 2
  /\ IsDynamic(params[1]) /\ Len(params[1].value) = 0
  /\ IsDynamic(params[2]) /\ Len(params[2].value) > WordBytes
  /\ as_usize(enc.v[5]) = as_usize(enc.v[3]) + WordBytes

\* words of the tail for the parameters ps[k..]
RECURSIVE TailWords(_, _)
TailWords(ps, k) ==
  IF k > Len(ps) THEN 0
  ELSE (IF IsDynamic(ps[k]) THEN 1 + CeilWords(Len(ps[k].value)) ELSE 0)
       + TailWords(ps, k + 1)

\* C8: the stream of a successful encode has exactly 1 + 2*|params| words
\* plus 1 + ceil(payload bytes / 32) words for every Bytes or String
\* parameter; for no parameters it is the one word of the short string "1".
C8_WordCount ==
  (Encoded /\ enc.kind = "Ok") =>
    /\ Len(enc.v) = 1 + 2 * Len(params) + TailWords(params, 1)
    /\ Len(params) = 0 => enc.v = <<WordOf(<<Version>>)>>

C8_Witness ==
  /\ op = "encode" /\ enc.kind = "Ok" /\ Len(params) = 2
  /\ params[1].tag = "String" /\ Len(params[1].value) = 0
  /\ params[2].tag = "Bytes" /\ Len(params[2].value) = WordBytes + 1
  /\ Len(enc.v) = 9

\* the schema character the parameter table gives a variant
TableChar(p) ==
  CASE p.tag = "Address" -> ch_a
    [] p.tag \in {"Bool", "Bytes32", "Date", "String32"} -> ch_b
    [] p.tag = "Bytes" -> ch_B
    [] p.tag = "Int256" -> ch_i
    [] p.tag = "String" -> ch_S
    [] p.tag = "Uint256" -> ch_u

IsUpper(c) == c >= 65 /\ c <= 90

\* C9: the schema of ABI::new(params), and the schema word encode writes,
\* is '1' followed by the table's character of every parameter in order
\* ('b' for Bool, Bytes32, Date and String32), and the character of a
\* parameter is upper-case exactly when is_fixed_size() is false.
C9_SchemaTable ==
  Encoded =>
    /\ ABI_new(params).schema
         = <<Version>> \o [k \in 1..Len(params) |-> TableChar(params[k])]
    /\ enc.kind = "Ok" =>
         enc.v[1] = WordOf(<<Version>> \o [k \in 1..Len(params) |-> TableChar(params[k])])
    /\ \A k \in 1..Len(params) :
         IsUpper(get_char(params[k])) <=> ~is_fixed_size(params[k])

\* C10: for both values of strict, the decoding of a single non-zero word
\* whose first byte is not '1' fails with InvalidVersion; here for the
\* words that hold UTF-8 text.
C10_VersionCheck ==
  (/\ op = "decode"
   /\ Len(input) = 1
   /\ ~is_zero(input[1])
   /\ chunk_to_str(input[1]).ok
   /\ input[1][1] # Version)
    => dec = [kind |-> "Err", err |-> InvalidVersion]

\* C11: for both values of strict, decode of the empty word list fails with
\* NoInput, and decode of a word list whose word 0 is all zero fails with
\* NoSchema whatever words follow it, also words that are no text or that a
\* schema could not read.
C11_NoInputNoSchema ==
  op = "decode" =>
    /\ Len(input) = 0 => dec = [kind |-> "Err", err |-> NoInput]
    /\ (Len(input) >= 1 /\ is_zero(input[1])) => dec = [kind |-> "Err", err |-> NoSchema]

C11_Witness ==
  /\ op = "decode" /\ ~strict
  /\ Len(input) = 3 /\ is_zero(input[1]) /\ input[2] = WordBadUtf
  /\ dec = [kind |-> "Err", err |-> NoSchema]

\* C12: encode fails with TooManyParams exactly when the ABI has more than
\* 31 parameters: with 32 or more the error is TooManyParams also when a
\* name or a String32 value is too long or a date is out of range, and with
\* 31 or fewer it is never TooManyParams.
C12_TooManyParams ==
  Encoded =>
    (enc = [kind |-> "Err", err |-> "TooManyParams"] <=> Len(params) > ParamLimit)

C12_Witness ==
  /\ op = "encode" /\ Len(params) = ParamLimit + 1
  /\ params[1].tag = "Date" /\ params[1].month > 12
  /\ enc = [kind |-> "Err", err |-> "TooManyParams"]

\* every Date of the list has year in 0..9999, month in 1..12, day in 1..31
DatesInRange ==
  \A k \in 1..Len(params) : params[k].tag = "Date" => DateInRange(params[k])

\* some name or some String32 value of the list has more than n bytes
SomeLonger(n) ==
  \E k \in 1..Len(params) :
    \/ Len(params[k].name) > n
    \/ params[k].tag = "String32" /\ Len(params[k].value) > n

StringTooLong == [kind |-> "Err", err |-> "StringTooLong"]

SchemaChars == {<<ch_a>>, <<ch_b>>, <<ch_B>>, <<ch_i>>, <<ch_S>>, <<ch_u>>}

\* the characters of the schema in word 0 behind the version character
WireChars == Tail(chars(chunk_to_str(input[1]).v))

\* word 0 holds a schema that starts with '1' and has a character outside
\* a, b, B, i, S, u
InvalidCharSchema ==
  /\ op = "decode"
  /\ Len(input) >= 1
  /\ chunk_to_str(input[1]).ok
  /\ Len(chunk_to_str(input[1]).v) >= 2
  /\ chunk_to_str(input[1]).v[1] = Version
  /\ \E k \in 1..Len(WireChars) : WireChars[k] \notin SchemaChars

\* the first position of the schema whose character is outside a, b, B, i, S, u
FirstInvalid ==
  CHOOSE k \in 1..Len(WireChars) :
    /\ WireChars[k] \notin SchemaChars
    /\ \A j \in 1..(k - 1) : WireChars[j] \in SchemaChars

\* C14: for every input whose schema starts with '1' and holds a character
\* outside a, b, B, i, S, u, decode returns an error and no ABI; the error
\* is InvalidSchemaCharacter(ch) of the first such character when no
\* position ahead of it failed, that is when the characters ahead of it
\* are fixed-size ones and the stream holds text in the name words up to it.
C14_FirstError ==
  InvalidCharSchema =>
    /\ dec.kind = "Err"
    /\ (/\ \A j \in 1..(FirstInvalid - 1) : WireChars[j] \in {<<ch_a>>, <<ch_b>>, <<ch_i>>, <<ch_u>>}
        /\ Len(input) >= 2 * FirstInvalid
        /\ \A j \in 1..FirstInvalid : chunk_to_str(input[2 * j]).ok)
         => dec.err = InvalidSchemaCharacter(WireChars[FirstInvalid])

WritesAt(pos) ==
  Cardinality({j \in 1..Len(enc.writes) : enc.writes[j][1] = pos})

\* the second loop writes nowhere but at the value words of Bytes and String
\* parameters (word index 2i+2 for parameter index i), and leaves the
\* other words of the schema word and fixed region as the first loop made them
OnlyPlaceholders ==
  /\ \A j \in 1..Len(enc.writes) :
       \E k \in 1..Len(params) : IsDynamic(params[k]) /\ enc.writes[j][1] = 2 * k
  /\ Len(enc.fixed) = 1 + 2 * Len(params)
  /\ \A w \in 1..Len(enc.fixed) :
       (w % 2 = 0 \/ w = 1 \/ ~IsDynamic(params[(w - 1) \div 2])) => enc.v[w] = enc.fixed[w]

\* C16 as stated: in the second loop of a successful encode the value word
\* of every Bytes or String parameter is written exactly once, whatever the
\* number of words of its payload, and no other word of the schema word
\* and fixed region is written.
C16_Original ==
  (Encoded /\ enc.kind = "Ok") =>
    /\ \A k \in 1..Len(params) : IsDynamic(params[k]) => WritesAt(2 * k) = 1
    /\ OnlyPlaceholders

\* C16 (amended): in the second loop of a successful encode the value word
\* of every Bytes or String parameter is written once for each of its
\* dynamic chunks, 1 + ceil(payload bytes / 32) times, every time with the
\* same value, the byte offset of its length word, and no other word of
\* the schema word and fixed region is written.
C16_BackPatch ==
  (Encoded /\ enc.kind = "Ok") =>
    /\ \A k \in 1..Len(params) :
         IsDynamic(params[k]) =>
           /\ WritesAt(2 * k) = 1 + CeilWords(Len(params[k].value))
           /\ \A j \in 1..Len(enc.writes) :
                enc.writes[j][1] = 2 * k =>
                  /\ enc.v[2 * k + 1] = U256_from(enc.writes[j][2])
                  /\ enc.writes[j][2] % WordBytes = 0
                  /\ enc.v[(enc.writes[j][2] \div WordBytes) + 1]
                       = U256_from(Len(params[k].value))
    /\ OnlyPlaceholders

\* a payload of two words between two fixed parameters: three writes
C16_Witness ==
  /\ op = "encode" /\ enc.kind = "Ok" /\ Len(params) >= 5
  /\ ~IsDynamic(params[3]) /\ ~IsDynamic(params[5])
  /\ params[4].tag = "String" /\ Len(params[4].value) = WordBytes + 1
  /\ WritesAt(8) = 3

\* C17: for every non-empty word list and both values of strict, decode
\* returns an ABI or a DecodingError and does not abort, also when the list
\* ends before the words of its schema or when a pointer or a length word
\* of a Bytes or String slot reaches past the end of the list.
C17_NoAbort ==
  (op \in {"decode", "decode_with_schema"} /\ Len(input) >= 1) =>
    dec.kind \in {"Ok", "Err"}

\* C18: whenever decode succeeds, under either value of strict, the schema
\* of the ABI it returns is the schema string held in word 0 of the input,
\* and encoding that ABI again, when it succeeds, writes the same word 0.
C18_WireSchema ==
  (op \in {"decode", "roundtrip"} /\ dec.kind = "Ok") =>
    /\ dec.abi.schema = chunk_to_str(input[1]).v
    /\ encode(dec.abi).kind = "Ok" => encode(dec.abi).v[1] = input[1]

\* the batches of res partition the blocks genesis..max_block in order
Partitioned ==
  /\ Len(res) = 0 <=> genesis > max_block
  /\ Len(res) > 0 => res[1].from = genesis /\ res[Len(res)].to = max_block
  /\ \A i \in 1..Len(res) :
       /\ res[i].from <= res[i].to
       /\ res[i].to - res[i].from + 1 <= batch_size
  /\ \A i \in 1..(Len(res) - 1) : res[i + 1].from = res[i].to + 1
  /\ \A b \in genesis..max_block :
       Cardinality({i \in 1..Len(res) : res[i].from <= b /\ b <= res[i].to}) = 1

\* C19: for every genesis, every known max block and every batch_size >= 1,
\* get_batches terminates, and the batches it returns are in increasing
\* order, the first starts at genesis, each has from <= to and at most
\* batch_size blocks, each next one starts at the previous to + 1, the last
\* ends at max, every block of genesis..max lies in exactly one batch, and
\* there is no batch exactly when genesis > max.
C19_Batches ==
  /\ [](max # NoMax => (pc = "start" ~> pc = "done"))
  /\ []((pc = "done" /\ max # NoMax) => (max_block = max /\ Partitioned))

\* three batches, the last one shorter than batch_size
C19_Witness ==
  /\ pc = "done" /\ max # NoMax
  /\ genesis = 1 /\ max = 5 /\ batch_size = 2
  /\ res = <<[from |-> 1, to |-> 2], [from |-> 3, to |-> 4], [from |-> 5, to |-> 5]>>

====
